---- MODULE Spec2Model ----
(***************************************************************************)
(* A model of react-attached-properties.                                   *)
(*                                                                         *)
(*   - the AttachedProperty class (src/src/AttachedProperty.js):           *)
(*     constructor, createSetter, from, clear;                             *)
(*   - the confined recursive walker (confinedBy / recursiveMap).          *)
(*                                                                         *)
(* JavaScript values are encoded as strings ("undefined", "null",          *)
(* "num:0", "bool:true", "str:red", ...); the UNSET_VALUE object is the    *)
(* string "obj:UNSET_VALUE", which no caller-supplied value equals.        *)
(* JavaScript strings that the code transforms (property names, ids, keys) *)
(* are sequences of one-character strings.                                 *)
(***************************************************************************)
EXTENDS Integers, Sequences, FiniteSets, TLC

VARIABLES
  uuidCount,   \* number of identifiers the uuid source has handed out
  declared,    \* the AttachedProperty objects constructed so far, in order
  component,   \* the container component's setters: name -> setter
  element,     \* the React child under inspection
  ret,         \* outcome of the last operation (return value or exception)
  content,     \* the children a container is rendered with (built bottom-up)
  walk         \* the last recursiveMap call: its arguments, result and visits

vars == <<uuidCount, declared, component, element, ret, content, walk>>

storeVars == <<uuidCount, declared, component, element, ret>>

walkVars == <<content, walk>>

----------------------------------------------------------------------------
(* Bounds *)

MaxProps == 2     \* property declarations per run

MaxNodes == 3     \* items (elements and leaves) in a freely built content tree

IdLen == 2        \* digits of a generated identifier (a uuid is fixed-length)

----------------------------------------------------------------------------
(* JavaScript values *)

Undefined == "undefined"

UNSET_VALUE == "obj:UNSET_VALUE"

\* values a caller can pass to a setter
CallerValues == {"undefined", "num:0", "num:3", "bool:true"}

\* JavaScript truthiness of an encoded value
Truthy(v) == v \notin {"undefined", "null", "num:0", "bool:false", "str:"}

\* property names as character sequences; <<>> is the empty string
NameRow == <<"r", "o", "w">>

NameRowUpper == <<"R", "o", "w">>

NameWithUnderscore == <<"c", "_", "l">>

NameCloseOnClick == <<"c", "l", "o", "s", "e", "O", "n", "C", "l", "i", "c", "k">>

NameIsHeader == <<"i", "s", "H", "e", "a", "d", "e", "r">>

NameIsFooter == <<"i", "s", "F", "o", "o", "t", "e", "r">>

NameArgs == {[t |-> "undefined"], [t |-> "null"],
             [t |-> "string", s |-> <<>>],
             [t |-> "string", s |-> NameRow],
             [t |-> "string", s |-> NameRowUpper],
             [t |-> "string", s |-> NameWithUnderscore]}

\* !name
Falsy(name) == name.t \in {"undefined", "null"} \/ (name.t = "string" /\ name.s = <<>>)

\* String.prototype.toLowerCase on one character
LowerChar(c) == CASE c = "R" -> "r"
                  [] c = "O" -> "o"
                  [] c = "W" -> "w"
                  [] c = "C" -> "c"
                  [] c = "L" -> "l"
                  [] c = "H" -> "h"
                  [] c = "F" -> "f"
                  [] OTHER -> c

toLowerCase(s) == [i \in 1..Len(s) |-> LowerChar(s[i])]

----------------------------------------------------------------------------
(* The uuid source: the n-th identifier, a fixed-length digit string.  The  *)
(* source is external; the model keeps its contract (no identifier twice). *)

Digit(d) == CASE d = 0 -> "0" [] d = 1 -> "1" [] d = 2 -> "2" [] d = 3 -> "3"
              [] d = 4 -> "4" [] d = 5 -> "5" [] d = 6 -> "6" [] d = 7 -> "7"
              [] d = 8 -> "8" [] OTHER -> "9"

RECURSIVE Pow10(_)
Pow10(k) == IF k = 0 THEN 1 ELSE 10 * Pow10(k - 1)

uuidv4(n) == [i \in 1..IdLen |-> Digit((n \div Pow10(IdLen - i)) % 10)]

----------------------------------------------------------------------------
(* React elements and other children *)

Null == [kind |-> "null"]

Text(s) == [kind |-> "text", val |-> s]

Num(n) == [kind |-> "number", val |-> n]

NoChildren == [form |-> "none"]

\* a props bag is a function from property keys to values
EmptyProps == [k \in {} |-> Undefined]

Element(type, props, children) ==
  [kind |-> "element", type |-> type, props |-> props, children |-> children]

\* React.isValidElement
isValidElement(x) == x.kind = "element"

\* obj[key] on a plain object: undefined when the key is missing
Get(bag, key) == IF key \in DOMAIN bag THEN bag[key] ELSE Undefined

Merge_earlierWins(a, b) == [k \in DOMAIN a \cup DOMAIN b |-> IF k \in DOMAIN a THEN a[k] ELSE b[k]]

Merge_replace(a, b) == b

\* { ...a, ...b }: later entries override earlier ones
Merge(a, b) == [k \in DOMAIN a \cup DOMAIN b |-> IF k \in DOMAIN b THEN b[k] ELSE a[k]]

\* React.cloneElement(element, config): a copy with config merged over props
cloneElement(e, config) == [e EXCEPT !.props = Merge(e.props, config)]

\* element.props[key] as JavaScript evaluates it: a TypeError when
\* element.props is not an object (null, a string, a number)
ThrowTypeError == "throw:TypeError"

ReadProp(e, key) == IF e.kind = "element" THEN Get(e.props, key) ELSE ThrowTypeError

----------------------------------------------------------------------------
(* class AttachedProperty *)

ThrowError == "throw:Error"

propertyID_noId(id, name) == <<"attachedproperty", "_">> \o <<"_">> \o toLowerCase(name)

\* `attachedproperty_${this.id}_${this.name.toLowerCase()}`
propertyID(id, name) == <<"attachedproperty", "_">> \o id \o <<"_">> \o toLowerCase(name)

constructor_noCheck(name, n) ==
  IF name.t # "string" THEN [threw |-> TRUE, error |-> ThrowTypeError]
  ELSE [threw |-> FALSE,
        obj |-> [name |-> name.s, id |-> uuidv4(n), propertyID |-> propertyID(uuidv4(n), name.s)]]

\* new AttachedProperty(name), n identifiers having been generated before
constructor(name, n) ==
  IF Falsy(name) THEN [threw |-> TRUE, error |-> ThrowError]
  ELSE [threw |-> FALSE,
        obj |-> [name |-> name.s, id |-> uuidv4(n), propertyID |-> propertyID(uuidv4(n), name.s)]]

\* the i-th argument of a call; undefined when fewer were passed
Arg(values, i) == IF Len(values) >= i THEN values[i] ELSE Undefined

\* createAttachedValue(...values) for the transforms in use:
\* _ => _,  () => true,  (x, y, z) => ({ x, y, z })
ApplyTransform(transform, values) ==
  CASE transform = "identity" -> Arg(values, 1)
    [] transform = "constTrue" -> "bool:true"
    [] transform = "coordinates" ->
         "obj:{x:" \o Arg(values, 1) \o ",y:" \o Arg(values, 2) \o ",z:" \o Arg(values, 3) \o "}"

\* the default parameter value: createAttachedValue = _ => _
DefaultTransform(transform) == IF transform = Undefined THEN "identity" ELSE transform

setter_firstArgOnly(p, transform, values) ==
  [k \in {p.propertyID} |->
     ApplyTransform(transform, IF Len(values) >= 1 THEN <<values[1]>> ELSE <<>>)]

\* the function createSetter stores: (...values) => ({ [propertyID]: ... })
setter(p, transform, values) == [k \in {p.propertyID} |-> ApplyTransform(transform, values)]

from_noValidCheck(p, e) ==
  LET propValue == ReadProp(e, p.propertyID)
  IN IF propValue = UNSET_VALUE THEN Undefined ELSE propValue

from_noUnsetCheck(p, e) ==
  IF ~isValidElement(e) THEN Undefined ELSE ReadProp(e, p.propertyID)

from_truthyOnly(p, e) ==
  IF ~isValidElement(e) THEN Undefined
  ELSE LET propValue == ReadProp(e, p.propertyID)
       IN IF ~Truthy(propValue) \/ propValue = UNSET_VALUE THEN Undefined ELSE propValue

\* property.from(element)
from(p, e) ==
  IF ~isValidElement(e) THEN Undefined
  ELSE LET propValue == ReadProp(e, p.propertyID)
       IN IF propValue = UNSET_VALUE THEN Undefined ELSE propValue

clear_empty(p) == EmptyProps

\* property.clear()
clear(p) == [k \in {p.propertyID} |-> UNSET_VALUE]

----------------------------------------------------------------------------
(* The property store as a state machine: a module declares properties,    *)
(* installs setters on a component, builds elements with attached values,  *)
(* and a container reads and clears them.                                  *)

Transforms == {"identity", "constTrue"}

ElementTypes == {"div"}

NonElements == {Null, Text("a"), Num("3")}

NoRet == [op |-> "none"]

Init ==
  /\ uuidCount = 0
  /\ declared = <<>>
  /\ component = [n \in {} |-> NoRet]
  /\ element = Null
  /\ ret = NoRet
  /\ content = <<>>
  /\ walk = NoRet

\* const p = new AttachedProperty(name)
Declare(name) ==
  /\ Len(declared) < MaxProps
  /\ LET r == constructor(name, uuidCount)
     IN /\ ret' = [op |-> "new", arg |-> name, out |-> r]
        /\ IF r.threw
           THEN UNCHANGED <<uuidCount, declared>>
           ELSE /\ uuidCount' = uuidCount + 1
                /\ declared' = Append(declared, r.obj)
  /\ UNCHANGED <<component, element, walkVars>>

createSetter_keepEarlier(i, transform) ==
  /\ component' = [n \in DOMAIN component \cup {declared[i].name} |->
                     IF n \in DOMAIN component THEN component[n]
                     ELSE [p |-> declared[i], transform |-> DefaultTransform(transform)]]
  /\ ret' = [op |-> "createSetter", p |-> i]
  /\ UNCHANGED <<uuidCount, declared, element, walkVars>>

\* p.createSetter(component, createAttachedValue)
createSetter(i, transform) ==
  /\ component' = [n \in DOMAIN component \cup {declared[i].name} |->
                     IF n = declared[i].name
                     THEN [p |-> declared[i], transform |-> DefaultTransform(transform)]
                     ELSE component[n]]
  /\ ret' = [op |-> "createSetter", p |-> i]
  /\ UNCHANGED <<uuidCount, declared, element, walkVars>>

\* a child appears: <div />, or a string, a number, null
NewChild(x) ==
  /\ element' = x
  /\ ret' = [op |-> "child"]
  /\ UNCHANGED <<uuidCount, declared, component, walkVars>>

\* <div {...props} {...Component.name(...values)} />
Attach(name, values) ==
  /\ isValidElement(element)
  /\ name \in DOMAIN component
  /\ LET s == component[name]
         fragment == setter(s.p, s.transform, values)
     IN /\ element' = cloneElement(element, fragment)
        /\ ret' = [op |-> "attach", fragment |-> fragment]
  /\ UNCHANGED <<uuidCount, declared, component, walkVars>>

\* React.cloneElement(child, p.clear())
Clear(i) ==
  /\ isValidElement(element)
  /\ element' = cloneElement(element, clear(declared[i]))
  /\ ret' = [op |-> "clear", p |-> i]
  /\ UNCHANGED <<uuidCount, declared, component, walkVars>>

\* p.from(child)
From(i) ==
  /\ ret' = [op |-> "from", p |-> i, elem |-> element, value |-> from(declared[i], element)]
  /\ UNCHANGED <<uuidCount, declared, component, element, walkVars>>

ArgLists == {<<>>} \cup {<<v>> : v \in CallerValues}

Next ==
  \/ \E name \in NameArgs : Declare(name)
  \/ \E i \in 1..Len(declared), t \in Transforms : createSetter(i, t)
  \/ \E x \in NonElements \cup {Element(t, EmptyProps, NoChildren) : t \in ElementTypes} : NewChild(x)
  \/ \E name \in DOMAIN component, values \in ArgLists : Attach(name, values)
  \/ \E i \in 1..Len(declared) : Clear(i)
  \/ \E i \in 1..Len(declared) : From(i)

Spec == Init /\ [][Next]_vars

----------------------------------------------------------------------------
(* Claims about the property store, checked under Spec *)

\* the fragment is part of the bag: every entry of it is in the bag
Contains(bag, fragment) == \A k \in DOMAIN fragment : k \in DOMAIN bag /\ bag[k] = fragment[k]

\* C1: the generated keys (propertyID) of any two distinct successful
\* declarations are different, whatever their names.
C1_DistinctKeys ==
  \A i, j \in 1..Len(declared) :
    i # j => declared[i].propertyID # declared[j].propertyID

\* two declarations whose names differ only in letter case have been made
C1_Witness ==
  \E i, j \in 1..Len(declared) :
    /\ i # j
    /\ declared[i].name # declared[j].name
    /\ toLowerCase(declared[i].name) = toLowerCase(declared[j].name)

\* C2: round trip - reading p on a valid element whose props contain the
\* fragment the default setter produces for v returns exactly v.
C2_RoundTrip ==
  (ret.op = "from" /\ isValidElement(ret.elem)) =>
    \A v \in CallerValues :
      Contains(ret.elem.props, setter(declared[ret.p], "identity", <<v>>)) => ret.value = v

\* a falsy value (0) attached with the default setter has been read back
C2_Witness ==
  /\ ret.op = "from"
  /\ isValidElement(ret.elem)
  /\ declared[ret.p].name \in DOMAIN component
  /\ component[declared[ret.p].name] = [p |-> declared[ret.p], transform |-> "identity"]
  /\ Contains(ret.elem.props, setter(declared[ret.p], "identity", <<"num:0">>))

\* C3: reading p on the copy of an element merged with clear(p) returns
\* undefined whatever the element carried before, exactly as on an element
\* where the key was never set.
C3_ClearedReadsAbsent ==
  /\ (ret.op = "from" /\ isValidElement(ret.elem)) =>
       /\ Contains(ret.elem.props, clear(declared[ret.p])) => ret.value = Undefined
       /\ declared[ret.p].propertyID \notin DOMAIN ret.elem.props => ret.value = Undefined
  /\ isValidElement(element) =>
       \A i \in 1..Len(declared) : from(declared[i], cloneElement(element, clear(declared[i]))) = Undefined

\* a cleared property has been read on an element that still carries the
\* value of another property
C3_Witness ==
  /\ ret.op = "from"
  /\ isValidElement(ret.elem)
  /\ Contains(ret.elem.props, clear(declared[ret.p]))
  /\ \E j \in 1..Len(declared) :
       j # ret.p /\ Get(ret.elem.props, declared[j].propertyID) \in CallerValues \ {Undefined}

\* C4: from applied to null, a string or a number returns undefined and
\* does not throw.
C4_NonNodeReadsAbsent ==
  (ret.op = "from" /\ ~isValidElement(ret.elem)) => ret.value = Undefined

\* a string child has been read
C4_Witness == ret.op = "from" /\ ret.elem = Text("a")

\* C5: a declaration with an empty or absent name throws and yields no
\* property object; a declaration with a non-empty name yields the object.
C5_EmptyNameFails ==
  /\ Len(declared) = uuidCount
  /\ ret.op = "new" =>
       IF Falsy(ret.arg)
       THEN ret.out.threw /\ "obj" \notin DOMAIN ret.out
       ELSE /\ ~ret.out.threw
            /\ Len(declared) >= 1
            /\ ret.out.obj = declared[Len(declared)]
            /\ ret.out.obj.name = ret.arg.s

\* a declaration with the empty string was rejected after a successful one
C5_Witness ==
  /\ ret.op = "new"
  /\ ret.arg = [t |-> "string", s |-> <<>>]
  /\ ret.out.threw
  /\ Len(declared) = 1

----------------------------------------------------------------------------
(* The children prop.  props.children is undefined, a single child, or an  *)
(* array of children; it is kept beside the props bag.  Element keys,      *)
(* which React.Children.map rewrites, are not modelled.                    *)

OneChild(x) == [form |-> "one", item |-> x]

ManyChildren(xs) == [form |-> "many", items |-> xs]

\* JavaScript truthiness of a child
TruthyItem(x) ==
  CASE x.kind = "null" -> FALSE
    [] x.kind = "text" -> x.val # ""
    [] x.kind = "number" -> x.val # "0"
    [] OTHER -> TRUE

\* JavaScript truthiness of props.children (an array is truthy, also empty)
TruthyChildren(ch) ==
  CASE ch.form = "none" -> FALSE
    [] ch.form = "one" -> TruthyItem(ch.item)
    [] OTHER -> TRUE

\* the children React.Children enumerates: none for undefined and for a
\* bare null, the single child, or the entries of the array
ItemsOf(ch) ==
  CASE ch.form = "none" -> <<>>
    [] ch.form = "one" -> IF ch.item = Null THEN <<>> ELSE <<ch.item>>
    [] OTHER -> ch.items

\* React.cloneElement(element, config, children)
cloneElementChildren(e, config, children) ==
  [e EXCEPT !.props = Merge(e.props, config), !.children = children]

----------------------------------------------------------------------------
(* The visitors (callbackFn) that containers pass to recursiveMap *)

Visitors == {"identity", "wrapAndClear"}

\* the property the wrapping visitor reads: the first declared one
hasCloseOnClick == declared[1]

\* callbackFn(child)
callbackFn(cb, child) ==
  CASE cb = "identity" -> child
    [] cb = "wrapAndClear" ->
         IF Truthy(from(hasCloseOnClick, child))
         THEN Element("div", EmptyProps, OneChild(cloneElement(child, clear(hasCloseOnClick))))
         ELSE child

----------------------------------------------------------------------------
(* confinedBy / recursiveMap *)

defaultOptions == EmptyProps

shouldStop_never(child, options) == FALSE

\* options.stopRecursion && child.type && options.stopRecursion === child.type
shouldStop(child, options) ==
  /\ Truthy(Get(options, "stopRecursion"))
  /\ Truthy(child.type)
  /\ Get(options, "stopRecursion") = child.type

\* what React.Children.map keeps of one callback result: null and undefined
\* results are omitted
Kept(mapped) == IF mapped = Null THEN <<>> ELSE <<mapped>>

RECURSIVE recursiveMap(_, _, _, _)
RECURSIVE MapFrom(_, _, _, _, _)

MapChild_preOrder(child, callbackFn_, options, path) ==
  LET effectiveOptions == Merge(defaultOptions, options)
      recurse == /\ isValidElement(child)
                 /\ TruthyChildren(child.children)
                 /\ ~shouldStop(child, effectiveOptions)
      mapped == callbackFn(callbackFn_, child)
      sub == recursiveMap(mapped.children, callbackFn_, options, path)
      mapped2 == IF recurse /\ isValidElement(mapped)
                 THEN cloneElementChildren(mapped, EmptyProps, sub.out) ELSE mapped
  IN [out |-> Kept(mapped2),
      log |-> <<[path |-> path, child |-> child, cloned |-> FALSE, result |-> mapped]>>
                \o (IF recurse /\ isValidElement(mapped) THEN sub.log ELSE <<>>)]

MapChild_cloneAll(child, callbackFn_, options, path) ==
  LET effectiveOptions == Merge(defaultOptions, options)
      recurse == /\ isValidElement(child)
                 /\ TruthyChildren(child.children)
                 /\ ~shouldStop(child, effectiveOptions)
      sub == recursiveMap(child.children, callbackFn_, options, path)
      child2 == IF recurse THEN cloneElementChildren(child, EmptyProps, sub.out)
                ELSE IF isValidElement(child) THEN cloneElement(child, EmptyProps)
                ELSE child
      mapped == callbackFn(callbackFn_, child2)
  IN [out |-> Kept(mapped),
      log |-> (IF recurse THEN sub.log ELSE <<>>)
                \o <<[path |-> path, child |-> child2, cloned |-> isValidElement(child),
                      result |-> mapped]>>]

\* the callback recursiveMap hands to React.Children.map, for the child at
\* position path: the entries it contributes to the result, and the visitor
\* invocations it makes, in order, each with the child handed to the
\* visitor, whether that child is a copy made by cloneElement, and the
\* visitor's result
MapChild(child, callbackFn_, options, path) ==
  LET effectiveOptions == Merge(defaultOptions, options)
      recurse == /\ isValidElement(child)
                 /\ TruthyChildren(child.children)
                 /\ ~shouldStop(child, effectiveOptions)
      sub == recursiveMap(child.children, callbackFn_, options, path)
      child2 == IF recurse THEN cloneElementChildren(child, EmptyProps, sub.out) ELSE child
      mapped == callbackFn(callbackFn_, child2)
  IN [out |-> Kept(mapped),
      log |-> (IF recurse THEN sub.log ELSE <<>>)
                \o <<[path |-> path, child |-> child2, cloned |-> recurse, result |-> mapped]>>]

RECURSIVE MapFrom_reversed(_, _, _, _, _)
MapFrom_reversed(items, i, callbackFn_, options, path) ==
  IF i > Len(items) THEN [out |-> <<>>, log |-> <<>>]
  ELSE LET one == MapChild(items[i], callbackFn_, options, Append(path, i))
           rest == MapFrom_reversed(items, i + 1, callbackFn_, options, path)
       IN [out |-> rest.out \o one.out, log |-> rest.log \o one.log]

\* React.Children.map over the entries i.. of an array of children
MapFrom(items, i, callbackFn_, options, path) ==
  IF i > Len(items) THEN [out |-> <<>>, log |-> <<>>]
  ELSE LET one == MapChild(items[i], callbackFn_, options, Append(path, i))
           rest == MapFrom(items, i + 1, callbackFn_, options, path)
       IN [out |-> one.out \o rest.out, log |-> one.log \o rest.log]

\* recursiveMap(children, callbackFn, options) for the children of the node
\* at position path; React.Children.map returns undefined and null as they
\* are, and an array otherwise
recursiveMap(children, callbackFn_, options, path) ==
  IF children.form = "none" \/ (children.form = "one" /\ children.item = Null)
  THEN [out |-> children, log |-> <<>>]
  ELSE LET items == IF children.form = "one" THEN <<children.item>> ELSE children.items
           r == MapFrom(items, 1, callbackFn_, options, path)
       IN [out |-> ManyChildren(r.out), log |-> r.log]

\* confinedBy(component).recursiveMap(children, callbackFn)
confinedBy(boundary, children, callbackFn_) ==
  recursiveMap(children, callbackFn_, [k \in {"stopRecursion"} |-> boundary], <<>>)

----------------------------------------------------------------------------
(* The walker as a state machine: the application builds the content of a  *)
(* container bottom-up, the container walks it when it renders.            *)

ContainerTypes == {"X", "Y"}

\* confinedBy is called with the container's own type, or with nothing
Boundaries == {"X", Undefined, "null"}

\* {...DropdownButton.closeOnClick()}
Marked == setter(hasCloseOnClick, "constTrue", <<>>)

Leaves == {Null, Text("a"), Num("0")}

Childless == {Element("X", EmptyProps, NoChildren), Element("Y", Marked, NoChildren)}

RECURSIVE NodeCount(_)
\* number of items in a sequence of children, descendants included
NodeCount(items) ==
  IF items = <<>> THEN 0
  ELSE LET x == Head(items)
       IN 1 + (IF isValidElement(x) THEN NodeCount(ItemsOf(x.children)) ELSE 0)
            + NodeCount(Tail(items))

\* the children prop that JSX produces for a list of children
AsChildren(items, bare) ==
  IF bare /\ Len(items) = 0 THEN NoChildren
  ELSE IF bare /\ Len(items) = 1 THEN OneChild(items[1])
  ELSE ManyChildren(items)

InitWalk ==
  /\ uuidCount = 1
  /\ declared = <<constructor([t |-> "string", s |-> NameCloseOnClick], 0).obj>>
  /\ component = [n \in {} |-> NoRet]
  /\ element = Null
  /\ ret = NoRet
  /\ content = <<>>
  /\ walk = NoRet

\* the tree of end-to-end scenario 3:
\* outer(type X) -> [leafText, inner(type X) -> [marked(type Y)]]
ScenarioMarked == Element("Y", Marked, NoChildren)

ScenarioInner == Element("X", EmptyProps, OneChild(ScenarioMarked))

ScenarioOuter == Element("X", EmptyProps, ManyChildren(<<Text("a"), ScenarioInner>>))

\* the application renders the tree of scenario 3
BuildScenario ==
  /\ walk = NoRet
  /\ content' = <<ScenarioOuter>>
  /\ UNCHANGED <<storeVars, walk>>

\* one more child, before or after the present ones
AddChild(x, front) ==
  /\ walk = NoRet
  /\ NodeCount(content) < MaxNodes
  /\ content' = IF front THEN <<x>> \o content ELSE Append(content, x)
  /\ UNCHANGED <<storeVars, walk>>

\* <Type {...props}>{content}</Type>
Nest(type, props, bare) ==
  /\ walk = NoRet
  /\ NodeCount(content) < MaxNodes
  /\ bare => Len(content) = 1
  /\ content' = <<Element(type, props, AsChildren(content, bare))>>
  /\ UNCHANGED <<storeVars, walk>>

\* the container renders: confinedBy(boundary).recursiveMap(children, callbackFn)
Walk(boundary, cb, bare) ==
  /\ walk = NoRet
  /\ bare => Len(content) <= 1
  /\ LET children == AsChildren(content, bare)
         r == confinedBy(boundary, children, cb)
     IN walk' = [op |-> "recursiveMap", children |-> children, boundary |-> boundary,
                 callbackFn |-> cb, out |-> r.out, log |-> r.log]
  /\ UNCHANGED <<storeVars, content>>

\* the application renders other content
Rerender ==
  /\ walk # NoRet
  /\ content' = <<>>
  /\ walk' = NoRet
  /\ UNCHANGED storeVars

NextWalk ==
  \/ \E x \in Leaves \cup Childless, front \in BOOLEAN : AddChild(x, front)
  \/ \E t \in ContainerTypes, b \in {EmptyProps, Marked}, bare \in BOOLEAN : Nest(t, b, bare)
  \/ \E boundary \in Boundaries, cb \in Visitors, bare \in BOOLEAN : Walk(boundary, cb, bare)
  \/ BuildScenario
  \/ Rerender

SpecWalk == InitWalk /\ [][NextWalk]_vars

----------------------------------------------------------------------------
(* Claims about the walker, checked under SpecWalk.  Items of the walked   *)
(* content are named by their position: the path of child indices from    *)
(* the children argument down to the item.                                 *)

RECURSIVE PathsIn(_)
\* the positions of all items beneath a children prop
PathsIn(ch) ==
  LET items == ItemsOf(ch)
  IN UNION {{<<i>>} \cup (IF isValidElement(items[i])
                          THEN {<<i>> \o q : q \in PathsIn(items[i].children)}
                          ELSE {}) : i \in 1..Len(items)}

RECURSIVE ItemAt(_, _)
ItemAt(ch, path) ==
  LET x == ItemsOf(ch)[path[1]]
  IN IF Len(path) = 1 THEN x ELSE ItemAt(x.children, Tail(path))

Walked == walk.op = "recursiveMap"

Confined == Walked /\ walk.boundary # Undefined

IsBoundary(q) ==
  LET x == ItemAt(walk.children, q) IN isValidElement(x) /\ x.type = walk.boundary

ProperPrefix(q, r) == Len(q) < Len(r) /\ SubSeq(r, 1, Len(q)) = q

HasBoundaryAncestor(q) ==
  \E k \in 1..(Len(q) - 1) : IsBoundary(SubSeq(q, 1, k))

Visits(q) == {i \in 1..Len(walk.log) : walk.log[i].path = q}

VisitCount(q) == Cardinality(Visits(q))

\* C6 as stated: every node B of the boundary type, at any depth of the
\* walked content, is visited, and no descendant of B is visited.
C6_Original ==
  Confined =>
    \A q \in PathsIn(walk.children) :
      IsBoundary(q) =>
        /\ VisitCount(q) >= 1
        /\ \A r \in PathsIn(walk.children) : ProperPrefix(q, r) => VisitCount(r) = 0

\* C6 (amended): every node B of the boundary type that does not itself lie
\* beneath a node of the boundary type is visited, and no descendant of a
\* node of the boundary type is visited.
C6_BoundaryNotCrossed ==
  Confined =>
    \A q \in PathsIn(walk.children) :
      IsBoundary(q) =>
        /\ ~HasBoundaryAncestor(q) => VisitCount(q) = 1
        /\ \A r \in PathsIn(walk.children) : ProperPrefix(q, r) => VisitCount(r) = 0

\* a boundary node with a marked descendant below a non-boundary ancestor
\* has been walked
C6_Witness ==
  /\ Confined
  /\ \E q, r \in PathsIn(walk.children) :
       /\ Len(q) = 2
       /\ IsBoundary(q)
       /\ ~HasBoundaryAncestor(q)
       /\ ProperPrefix(q, r)
       /\ ItemAt(walk.children, r) = ScenarioMarked

\* C7: every item of the content with no ancestor of the boundary type is
\* passed to the visitor exactly once.
C7_AllOutsideVisitedOnce ==
  Confined =>
    \A q \in PathsIn(walk.children) :
      ~HasBoundaryAncestor(q) => VisitCount(q) = 1

\* an entry of the result that stands for an input item: the item itself
\* for a leaf, an element of the same type and props for an element
Corresponds(o, x) ==
  IF isValidElement(x)
  THEN isValidElement(o) /\ o.type = x.type /\ o.props = x.props
  ELSE o = x

NonNull(xs) == SelectSeq(xs, LAMBDA x : x # Null)

\* C8 as stated: with the identity visitor the result has the length of the
\* input sequence and its entries correspond to the inputs in order.
C8_Original ==
  (Walked /\ walk.callbackFn = "identity" /\ walk.children.form = "many") =>
    /\ walk.out.form = "many"
    /\ Len(walk.out.items) = Len(walk.children.items)
    /\ \A i \in 1..Len(walk.children.items) :
         i <= Len(walk.out.items) => Corresponds(walk.out.items[i], walk.children.items[i])

\* C8 (amended): with the identity visitor the result holds one entry for
\* each input that is not null, in the order of the inputs; it has the
\* length of the input when no input is null.
C8_LengthAndOrder ==
  (Walked /\ walk.callbackFn = "identity" /\ walk.children.form = "many") =>
    LET xs == NonNull(walk.children.items)
    IN /\ walk.out.form = "many"
       /\ Len(walk.out.items) = Len(xs)
       /\ \A i \in 1..Len(xs) : Corresponds(walk.out.items[i], xs[i])

\* a sequence of a text, a number and an element, in some order and without
\* null, has been walked with the identity visitor
C8_Witness ==
  /\ Walked
  /\ walk.callbackFn = "identity"
  /\ walk.children.form = "many"
  /\ Len(walk.children.items) = 3
  /\ {walk.children.items[i].kind : i \in 1..3} = {"text", "number", "element"}
  /\ Len(walk.out.items) = 3

\* the walk recurses into the node at position q
RecursedInto(q) ==
  LET x == ItemAt(walk.children, q)
  IN /\ VisitCount(q) >= 1
     /\ isValidElement(x)
     /\ TruthyChildren(x.children)
     /\ ~(walk.boundary # Undefined /\ x.type = walk.boundary)

\* the visit of the item at position q (it is visited)
VisitOf(q) == CHOOSE i \in 1..Len(walk.log) : walk.log[i].path = q

\* number of children React enumerates for the node at position q
ChildCount(q) == Len(ItemsOf(ItemAt(walk.children, q).children))

ChildrenFirst(q) ==
  \A i \in 1..ChildCount(q) :
    /\ VisitCount(Append(q, i)) = 1
    /\ VisitOf(Append(q, i)) < VisitOf(q)

\* the visitor's results for the children of the node at q, in order
ChildResults(q) == [i \in 1..ChildCount(q) |-> walk.log[VisitOf(Append(q, i))].result]

\* C9 as stated: the visitor sees every child of a node before the node, and
\* the node it is handed carries exactly the visitor's results for them.
C9_Original ==
  Walked =>
    \A q \in PathsIn(walk.children) :
      RecursedInto(q) =>
        /\ ChildrenFirst(q)
        /\ walk.log[VisitOf(q)].child.children = ManyChildren(ChildResults(q))

\* C9 (amended): the visitor sees every child of a node before the node, and
\* the node it is handed carries as its children the visitor's results for
\* them that are not null, in order.
C9_PostOrder ==
  Walked =>
    \A q \in PathsIn(walk.children) :
      RecursedInto(q) =>
        /\ ChildrenFirst(q)
        /\ walk.log[VisitOf(q)].child.children = ManyChildren(NonNull(ChildResults(q)))

\* the wrapping visitor was handed a parent whose child it had wrapped
C9_Witness ==
  /\ Walked
  /\ walk.callbackFn = "wrapAndClear"
  /\ \E q \in PathsIn(walk.children) :
       /\ RecursedInto(q)
       /\ ChildCount(q) >= 1
       /\ walk.log[VisitOf(Append(q, 1))].result # walk.log[VisitOf(Append(q, 1))].child
       /\ walk.log[VisitOf(q)].child.children.items[1] = walk.log[VisitOf(Append(q, 1))].result

\* the paths of the visitor's invocations, in order
VisitedPaths == [i \in 1..Len(walk.log) |-> walk.log[i].path]

\* the walk is confined by X and is given the tree of scenario 3
WalkedScenarioTree ==
  /\ Walked
  /\ walk.boundary = "X"
  /\ walk.children \in {OneChild(ScenarioOuter), ManyChildren(<<ScenarioOuter>>)}

\* the walk is confined by X and is given the children of outer, as when
\* outer is the container that walks its content
WalkedScenarioContent ==
  /\ Walked
  /\ walk.boundary = "X"
  /\ walk.children = ScenarioOuter.children

\* C10 as stated: walking the tree of scenario 3 confined by X visits outer,
\* leafText and inner and never marked.
C10_Original ==
  WalkedScenarioTree =>
    /\ VisitCount(<<1>>) >= 1
    /\ VisitCount(<<1, 1>>) >= 1
    /\ VisitCount(<<1, 2>>) >= 1
    /\ VisitCount(<<1, 2, 1>>) = 0

\* C10 (amended): walking the children of outer confined by X visits
\* leafText and inner, in this order, and never marked (nor outer, which is
\* not among them); walking the tree with outer as its root visits outer only.
C10_Scenario3 ==
  /\ WalkedScenarioContent =>
       /\ VisitedPaths = <<(<<1>>), (<<2>>)>>
       /\ walk.log[1].child = Text("a")
       /\ walk.log[2].child = ScenarioInner
  /\ WalkedScenarioTree =>
       /\ VisitedPaths = <<(<<1>>)>>
       /\ walk.log[1].child = ScenarioOuter

\* the children of outer have been walked confined by X
C10_Witness == WalkedScenarioContent /\ Len(walk.log) = 2

----------------------------------------------------------------------------
(* Setters, propagation and merge order: two properties are declared, the  *)
(* component gets setters with any transform, elements are built with      *)
(* fragments spread before or after other props, and a component passes    *)
(* the props it received on to the element it renders.                     *)

AllTransforms == Transforms \cup {"coordinates"}

\* argument lists of zero to three arguments
SetterArgs == {<<>>, <<"num:0">>, <<"num:3">>, <<"num:3", "num:0">>, <<"num:3", "num:0", "bool:true">>}

\* new AttachedProperty('row') twice, or once as 'row' and once as 'Row'
InitProps ==
  /\ uuidCount = 2
  /\ \E n \in {NameRow, NameRowUpper} :
       declared = <<constructor([t |-> "string", s |-> NameRow], 0).obj,
                    constructor([t |-> "string", s |-> n], 1).obj>>
  /\ component = [n \in {} |-> NoRet]
  /\ element = Null
  /\ ret = NoRet
  /\ content = <<>>
  /\ walk = NoRet

\* Component.name(...values)
CallSetter(name, values) ==
  /\ name \in DOMAIN component
  /\ ret' = [op |-> "setter", name |-> name, values |-> values,
             fragment |-> setter(component[name].p, component[name].transform, values)]
  /\ UNCHANGED <<uuidCount, declared, component, element, walkVars>>

\* <div {...Component.name(...values)} {...rest} />
AttachBefore(name, values) ==
  /\ isValidElement(element)
  /\ name \in DOMAIN component
  /\ LET s == component[name]
         fragment == setter(s.p, s.transform, values)
     IN /\ element' = [element EXCEPT !.props = Merge(fragment, element.props)]
        /\ ret' = [op |-> "attachBefore", fragment |-> fragment, rest |-> element.props]
  /\ UNCHANGED <<uuidCount, declared, component, walkVars>>

\* const ValidatedInput = ({ ...inputProps }) => <input {...inputProps} />
Spread ==
  /\ isValidElement(element)
  /\ element' = Element("input", Merge(EmptyProps, element.props), NoChildren)
  /\ ret' = [op |-> "spread", source |-> element]
  /\ UNCHANGED <<uuidCount, declared, component, walkVars>>

NextProps ==
  \/ \E i \in 1..Len(declared), t \in AllTransforms \cup {Undefined} : createSetter(i, t)
  \/ \E x \in NonElements \cup {Element(t, EmptyProps, NoChildren) : t \in ElementTypes} : NewChild(x)
  \/ \E name \in DOMAIN component, values \in SetterArgs : CallSetter(name, values)
  \/ \E name \in DOMAIN component, values \in SetterArgs : Attach(name, values)
  \/ \E name \in DOMAIN component, values \in SetterArgs : AttachBefore(name, values)
  \/ \E i \in 1..Len(declared) : Clear(i)
  \/ \E i \in 1..Len(declared) : From(i)
  \/ Spread

SpecProps == InitProps /\ [][NextProps]_vars

----------------------------------------------------------------------------
(* Claims checked under SpecProps *)

\* the declared property that owns key k
PropertyOf(k) == CHOOSE i \in 1..Len(declared) : declared[i].propertyID = k

\* C11: a setter created with transform f returns, for any argument list, a
\* single-entry fragment mapping the property's key to f applied to the
\* arguments; without a transform the value is the single argument; the
\* fragment of () => true reads back as true, and as undefined once cleared.
C11_SetterFragment ==
  /\ ret.op = "setter" =>
       LET s == component[ret.name]
       IN /\ DOMAIN ret.fragment = {s.p.propertyID}
          /\ ret.fragment[s.p.propertyID] = ApplyTransform(s.transform, ret.values)
          /\ (s.transform = "identity" /\ Len(ret.values) = 1) =>
               ret.fragment[s.p.propertyID] = ret.values[1]
          /\ (s.transform = "coordinates" /\ ret.values = <<"num:3", "num:0", "bool:true">>) =>
               ret.fragment[s.p.propertyID] = "obj:{x:num:3,y:num:0,z:bool:true}"
          /\ s.transform = "constTrue" =>
               /\ ret.fragment[s.p.propertyID] = "bool:true"
               /\ isValidElement(element) =>
                    /\ from(s.p, cloneElement(element, ret.fragment)) = "bool:true"
                    /\ from(s.p, cloneElement(cloneElement(element, ret.fragment), clear(s.p))) = Undefined

\* a three-argument setter has been called with three arguments
C11_Witness ==
  /\ ret.op = "setter"
  /\ component[ret.name].transform = "coordinates"
  /\ Len(ret.values) = 3

\* C13: once a container has cleared p on the copy of a node, an element
\* that receives the copy's whole props reads p as undefined; on an element
\* that received propagated props, p reads truthy only when the props
\* carried an uncleared value.
C13_ClearedNotPropagated ==
  /\ ret.op = "clear" =>
       from(declared[ret.p], Element("input", Merge(EmptyProps, element.props), NoChildren)) = Undefined
  /\ ret.op = "spread" =>
       /\ element.props = ret.source.props
       /\ \A i \in 1..Len(declared) :
            LET stored == Get(ret.source.props, declared[i].propertyID)
            IN /\ stored = UNSET_VALUE => from(declared[i], element) = Undefined
               /\ Truthy(from(declared[i], element)) => (stored # UNSET_VALUE /\ Truthy(stored))

\* props holding a cleared property and an uncleared one have been passed on
C13_Witness ==
  /\ ret.op = "spread"
  /\ Get(ret.source.props, declared[1].propertyID) = UNSET_VALUE
  /\ Get(ret.source.props, declared[2].propertyID) = "num:3"

\* the fragments a caller can merge for property i: attach v, or clear
FragmentsOf(i) ==
  {setter(declared[i], "identity", <<v>>) : v \in CallerValues} \cup {clear(declared[i])}

RECURSIVE MergeAll(_, _)
\* { ...bag, ...frags[1], ...frags[2], ... }
MergeAll(bag, frags) ==
  IF frags = <<>> THEN bag ELSE MergeAll(Merge(bag, Head(frags)), Tail(frags))

\* what reading yields for a stored value
Effective(v) == IF v = UNSET_VALUE THEN Undefined ELSE v

\* C14: for any sequence of attach and clear fragments of p merged in order
\* onto one props bag, from(p) returns the value of the last fragment if it
\* is an attach and undefined if it is a clear; attaching after spreading
\* props that hold a cleared p yields the attached value, attaching before
\* spreading them yields undefined.
C14_LastFragmentWins ==
  /\ isValidElement(element) =>
       \A i \in 1..Len(declared) :
         \A f1, f2 \in FragmentsOf(i) :
           LET k == declared[i].propertyID
               merged == [element EXCEPT !.props = MergeAll(element.props, <<f1, f2>>)]
           IN from(declared[i], merged) = Effective(f2[k])
  /\ ret.op = "attach" =>
       \A k \in DOMAIN ret.fragment : from(declared[PropertyOf(k)], element) = ret.fragment[k]
  /\ ret.op = "clear" => from(declared[ret.p], element) = Undefined
  /\ ret.op = "attachBefore" =>
       \A k \in DOMAIN ret.fragment :
         from(declared[PropertyOf(k)], element) =
           IF k \in DOMAIN ret.rest THEN Effective(ret.rest[k]) ELSE ret.fragment[k]

\* a value was attached before spreading props that hold the property cleared
C14_Witness ==
  /\ ret.op = "attachBefore"
  /\ \E k \in DOMAIN ret.fragment :
       /\ ret.fragment[k] = "num:3"
       /\ k \in DOMAIN ret.rest
       /\ ret.rest[k] = UNSET_VALUE
       /\ Get(element.props, k) = UNSET_VALUE

----------------------------------------------------------------------------
(* Claim checked under Spec *)

\* C20: merging an attach or clear fragment of a property p into an
\* element's props leaves from(q) unchanged for every other declared
\* property q, also one with the same name.
C20_Independence ==
  [][/\ (ret'.op = "clear" /\ isValidElement(element)) =>
          \A i \in 1..Len(declared) :
            i # ret'.p => from(declared[i], element') = from(declared[i], element)
     /\ (ret'.op = "attach" /\ isValidElement(element)) =>
          \A i \in 1..Len(declared) :
            declared[i].propertyID \notin DOMAIN ret'.fragment
              => from(declared[i], element') = from(declared[i], element)]_vars

\* a property was cleared on an element that carries a value of another
\* property with the same name
C20_Witness ==
  /\ ret.op = "clear"
  /\ \E i \in 1..Len(declared) :
       /\ i # ret.p
       /\ declared[i].name = declared[ret.p].name
       /\ Get(element.props, declared[i].propertyID) = "num:3"
       /\ Get(element.props, declared[ret.p].propertyID) = UNSET_VALUE

----------------------------------------------------------------------------
(* Further claims checked under SpecWalk *)

\* the element a visitor result stands for: the result itself, or the
\* cleared copy inside the wrapper that the wrapping visitor returns
Unwrapped(e) == IF e.result = e.child THEN e.result ELSE e.result.children.item

\* C12: after an outer container of type T has walked its content with the
\* visitor that clears and wraps every node carrying p, every node beneath
\* a nested container of type T still carries its original value of p and
\* is not wrapped, and the nested container's own confined walk reads it.
C12_NestedContainerUntouched ==
  (Confined /\ walk.callbackFn = "wrapAndClear") =>
    \A q \in PathsIn(walk.children) :
      (IsBoundary(q) /\ ~HasBoundaryAncestor(q)) =>
        LET B == ItemAt(walk.children, q)
            after == Unwrapped(walk.log[VisitOf(q)])
            nested == confinedBy(walk.boundary, after.children, "wrapAndClear")
        IN /\ VisitCount(q) = 1
           /\ after.type = B.type
           /\ after.children = B.children
           /\ \A r \in PathsIn(B.children) :
                /\ ItemAt(after.children, r) = ItemAt(B.children, r)
                /\ from(hasCloseOnClick, ItemAt(after.children, r))
                     = from(hasCloseOnClick, ItemAt(B.children, r))
           /\ \A n \in 1..Len(nested.log) :
                /\ from(hasCloseOnClick, nested.log[n].child)
                     = from(hasCloseOnClick, ItemAt(B.children, nested.log[n].path))
                /\ Truthy(from(hasCloseOnClick, nested.log[n].child))
                     => nested.log[n].result # nested.log[n].child

\* the outer walk wrapped a marked node beside a nested container that
\* holds a marked node
C12_Witness ==
  /\ Confined
  /\ walk.callbackFn = "wrapAndClear"
  /\ \E q, r, o \in PathsIn(walk.children) :
       /\ IsBoundary(q)
       /\ ~HasBoundaryAncestor(q)
       /\ ProperPrefix(q, r)
       /\ ItemAt(walk.children, r) = ScenarioMarked
       /\ ~ProperPrefix(q, o)
       /\ o # q
       /\ VisitCount(o) = 1
       /\ walk.log[VisitOf(o)].result # walk.log[VisitOf(o)].child

RECURSIVE Arrayed(_)
RECURSIVE ArrayedItem(_)
\* the same children with every single bare child written as a one-element
\* array, at every level
Arrayed(ch) ==
  CASE ch.form = "none" -> ch
    [] ch.form = "one" -> IF ch.item = Null THEN ch ELSE ManyChildren(<<ArrayedItem(ch.item)>>)
    [] OTHER -> ManyChildren([i \in 1..Len(ch.items) |-> ArrayedItem(ch.items[i])])

ArrayedItem(x) ==
  IF isValidElement(x) THEN [x EXCEPT !.children = Arrayed(x.children)] ELSE x

\* C18: a single bare child gives the same walk as the one-element sequence
\* holding it, and an empty sequence gives an empty sequence, at the top
\* level and at every level of recursion.
C18_BareChildAsSequence ==
  Walked =>
    LET r == confinedBy(walk.boundary, Arrayed(walk.children), walk.callbackFn)
    IN /\ VisitedPaths = [i \in 1..Len(r.log) |-> r.log[i].path]
       /\ Arrayed(walk.out) = Arrayed(r.out)
       /\ walk.children = ManyChildren(<<>>) => walk.out = ManyChildren(<<>>)

----------------------------------------------------------------------------
(* The Modal example (src/examples/Modal.js) *)

markedForHeader == declared[1]

markedForFooter == declared[2]

\* { ...markedForHeader.clear(), ...markedForFooter.clear() }
ClearBoth == Merge(clear(markedForHeader), clear(markedForFooter))

ModalPlace_footerFirst(child, acc) ==
  IF Truthy(from(markedForFooter, child))
  THEN [acc EXCEPT !.footer = Append(@, cloneElement(child, ClearBoth))]
  ELSE IF Truthy(from(markedForHeader, child))
  THEN [acc EXCEPT !.header = Append(@, cloneElement(child, ClearBoth))]
  ELSE [acc EXCEPT !.body = Append(@, child)]

\* the callback of React.Children.forEach: push the child, or its cleared
\* copy, onto headerContent, footerContent or bodyContent
ModalPlace(child, acc) ==
  IF Truthy(from(markedForHeader, child))
  THEN [acc EXCEPT !.header = Append(@, cloneElement(child, ClearBoth))]
  ELSE IF Truthy(from(markedForFooter, child))
  THEN [acc EXCEPT !.footer = Append(@, cloneElement(child, ClearBoth))]
  ELSE [acc EXCEPT !.body = Append(@, child)]

RECURSIVE ModalFrom(_, _, _)
\* React.Children.forEach over the children i.. in order
ModalFrom(items, i, acc) ==
  IF i > Len(items) THEN acc
  ELSE ModalFrom(items, i + 1, ModalPlace(items[i], acc))

\* Modal({ children }): the contents of the three sections
Modal(children) ==
  ModalFrom(ItemsOf(children), 1, [header |-> <<>>, footer |-> <<>>, body |-> <<>>])

\* the props a child of a Modal can carry for the two properties: nothing,
\* {...Modal.isHeader()}, or a cleared value received through spread props
ModalBags ==
  {Merge(h, f) : h \in {EmptyProps, setter(markedForHeader, "constTrue", <<>>), clear(markedForHeader)},
                 f \in {EmptyProps, setter(markedForFooter, "constTrue", <<>>), clear(markedForFooter)}}

ModalChildren ==
  {Null, Text("a")} \cup {Element(t, b, NoChildren) : t \in ElementTypes, b \in ModalBags}

\* Modal.js lines 5-6 and 29-30: both properties declared, both setters set
InitModal ==
  /\ uuidCount = 2
  /\ declared = <<constructor([t |-> "string", s |-> NameIsHeader], 0).obj,
                  constructor([t |-> "string", s |-> NameIsFooter], 1).obj>>
  /\ component = [n \in {NameIsHeader, NameIsFooter} |->
                    [p |-> constructor([t |-> "string", s |-> n], IF n = NameIsHeader THEN 0 ELSE 1).obj,
                     transform |-> "constTrue"]]
  /\ element = Null
  /\ ret = NoRet
  /\ content = <<>>
  /\ walk = NoRet

\* <Modal>{content}</Modal> renders
RenderModal(bare) ==
  /\ walk = NoRet
  /\ bare => Len(content) <= 1
  /\ LET children == AsChildren(content, bare)
         sections == Modal(children)
     IN walk' = [op |-> "Modal", children |-> children, header |-> sections.header,
                 body |-> sections.body, footer |-> sections.footer]
  /\ UNCHANGED <<storeVars, content>>

NextModal ==
  \/ \E x \in ModalChildren, front \in BOOLEAN : AddChild(x, front)
  \/ \E bare \in BOOLEAN : RenderModal(bare)
  \/ Rerender

SpecModal == InitModal /\ [][NextModal]_vars

IsHeader(x) == Truthy(from(markedForHeader, x))

IsFooter(x) == Truthy(from(markedForFooter, x))

\* c is a copy of x that differs only in reading undefined for both
\* properties
ClearedCopyOf(c, x) ==
  /\ isValidElement(c)
  /\ c.type = x.type
  /\ c.children = x.children
  /\ from(markedForHeader, c) = Undefined
  /\ from(markedForFooter, c) = Undefined
  /\ \A k \in DOMAIN x.props \ {markedForHeader.propertyID, markedForFooter.propertyID} :
       Get(c.props, k) = x.props[k]

\* C19: the Modal places every child in exactly one section - header when
\* isHeader reads truthy, otherwise footer when isFooter reads truthy,
\* otherwise body - keeps the order of the children in each section, and
\* every copy in header or footer reads undefined for both properties.
C19_ModalSections ==
  walk.op = "Modal" =>
    LET xs == ItemsOf(walk.children)
        H == SelectSeq(xs, IsHeader)
        F == SelectSeq(xs, LAMBDA x : ~IsHeader(x) /\ IsFooter(x))
        B == SelectSeq(xs, LAMBDA x : ~IsHeader(x) /\ ~IsFooter(x))
    IN /\ Len(walk.header) = Len(H)
       /\ \A i \in 1..Len(H) : ClearedCopyOf(walk.header[i], H[i])
       /\ Len(walk.footer) = Len(F)
       /\ \A i \in 1..Len(F) : ClearedCopyOf(walk.footer[i], F[i])
       /\ walk.body = B

\* a child marked for both sections, a footer child and an unmarked child
\* have been placed
C19_Witness ==
  /\ walk.op = "Modal"
  /\ Len(walk.header) = 1
  /\ Len(walk.footer) = 1
  /\ Len(walk.body) = 1
  /\ \E i \in 1..Len(ItemsOf(walk.children)) :
       IsHeader(ItemsOf(walk.children)[i]) /\ IsFooter(ItemsOf(walk.children)[i])

----------------------------------------------------------------------------
(* recursiveMap step by step: the call stack of a running walk.  Each     *)
(* frame is one call of React.Children.map: the children it enumerates,   *)
(* the index of the next child, the results kept so far and the position  *)
(* of the node whose children these are.                                   *)

Descend_noValidCheck(child, options) ==
  IF ~isValidElement(child) THEN "throw"
  ELSE IF TruthyChildren(child.children) /\ ~shouldStop(child, Merge(defaultOptions, options))
  THEN "recurse" ELSE "visit"

\* the condition of recursiveMap's callback: && evaluates left to right and
\* stops at the first falsy operand, so child.props is read of elements only
Descend(child, options) ==
  IF /\ isValidElement(child)
     /\ TruthyChildren(child.children)
     /\ ~shouldStop(child, Merge(defaultOptions, options))
  THEN "recurse" ELSE "visit"

Frame(items, path) == [items |-> items, i |-> 1, out |-> <<>>, path |-> path]

Running == walk.op = "running"

Returned == walk.op = "returned"

\* the container renders and calls
\* confinedBy(boundary).recursiveMap(children, callbackFn)
StartWalk(boundary, cb, bare) ==
  /\ walk = NoRet
  /\ bare => Len(content) <= 1
  /\ LET children == AsChildren(content, bare)
         asIs == children.form = "none" \/ (children.form = "one" /\ children.item = Null)
     IN walk' = [op |-> IF asIs THEN "returned" ELSE "running",
                 children |-> children, boundary |-> boundary, callbackFn |-> cb,
                 stack |-> IF asIs THEN <<>>
                           ELSE <<Frame(IF children.form = "one" THEN <<children.item>>
                                        ELSE children.items, <<>>)>>,
                 out |-> children, log |-> <<>>]
  /\ UNCHANGED <<storeVars, content>>

\* the next step of the running walk, in the innermost call
RunStep ==
  /\ Running
  /\ LET n == Len(walk.stack)
         f == walk.stack[n]
         options == [k \in {"stopRecursion"} |-> walk.boundary]
     IN IF f.i > Len(f.items)
        THEN \* React.Children.map returns its array
             IF n = 1
             THEN walk' = [walk EXCEPT !.op = "returned", !.stack = <<>>,
                                       !.out = ManyChildren(f.out)]
             ELSE LET p == walk.stack[n - 1]
                      child == cloneElementChildren(p.items[p.i], EmptyProps, ManyChildren(f.out))
                      mapped == callbackFn(walk.callbackFn, child)
                  IN walk' = [walk EXCEPT
                       !.stack = Append(SubSeq(walk.stack, 1, n - 2),
                                        [p EXCEPT !.i = @ + 1, !.out = @ \o Kept(mapped)]),
                       !.log = Append(@, [path |-> f.path, child |-> child, cloned |-> TRUE,
                                          result |-> mapped])]
        ELSE LET child == f.items[f.i]
                 d == Descend(child, options)
             IN CASE d = "throw" ->
                       walk' = [walk EXCEPT !.op = "threw", !.stack = <<>>, !.out = ThrowTypeError]
                  [] d = "recurse" ->
                       walk' = [walk EXCEPT !.stack = Append(@,
                                  Frame(IF child.children.form = "one" THEN <<child.children.item>>
                                        ELSE child.children.items, Append(f.path, f.i)))]
                  [] OTHER ->
                       LET mapped == callbackFn(walk.callbackFn, child)
                       IN walk' = [walk EXCEPT
                            !.stack[n] = [f EXCEPT !.i = @ + 1, !.out = @ \o Kept(mapped)],
                            !.log = Append(@, [path |-> Append(f.path, f.i), child |-> child,
                                               cloned |-> FALSE, result |-> mapped])]
  /\ UNCHANGED <<storeVars, content>>

\* the application renders other content once the walk is over
RenderAgain ==
  /\ ~Running
  /\ Rerender

NextRun ==
  \/ \E x \in Leaves : AddChild(x, FALSE)
  \/ \E t \in ContainerTypes, bare \in BOOLEAN :
       Nest(t, IF t = "Y" THEN Marked ELSE EmptyProps, bare)
  \/ \E boundary \in Boundaries, cb \in Visitors, bare \in BOOLEAN : StartWalk(boundary, cb, bare)
  \/ RunStep
  \/ RenderAgain

SpecRun == InitWalk /\ [][NextRun]_vars

\* recursiveMap is synchronous: once called it runs on to its end
SpecRunFair == SpecRun /\ WF_vars(RunStep)

\* the walk that ran step by step returns what recursiveMap returns
RunAgrees ==
  Returned =>
    LET r == confinedBy(walk.boundary, walk.children, walk.callbackFn)
    IN walk.out = r.out /\ walk.log = r.log

\* C15: for every finite content tree, every boundary type and every total
\* visitor, text, number and null leaves included, a walk that was called
\* never raises and eventually returns a result.
C15_WalkTerminates ==
  /\ [](walk.op # "threw")
  /\ (Running ~> Returned)

\* a walk has returned that visited a null leaf and a text leaf beneath an
\* element it recursed into
C15_Witness ==
  /\ Returned
  /\ \E i, j \in 1..Len(walk.log) :
       /\ walk.log[i].child = Null
       /\ Len(walk.log[i].path) = 2
       /\ walk.log[j].child = Text("a")
       /\ Len(walk.log[j].path) = 2

----------------------------------------------------------------------------
(* The walker over objects with identity.  React elements are objects: an *)
(* element sits at an address of the heap, its children prop holds        *)
(* references to other elements (and text, numbers, null themselves), and *)
(* createElement and cloneElement put a new object at a new address.      *)

Ref(n) == [kind |-> "ref", at |-> n]

IsRef(x) == x.kind = "ref"

\* the object a child is: the element it refers to, or the leaf itself
At(heap, x) == IF IsRef(x) THEN heap[x.at] ELSE x

RECURSIVE AllocItem(_, _)
RECURSIVE AllocSeq(_, _, _)

\* React.createElement for every element of a content tree, children first
AllocItem(heap, x) ==
  IF ~isValidElement(x) THEN [heap |-> heap, out |-> x]
  ELSE LET c == CASE x.children.form = "none" -> [heap |-> heap, out |-> NoChildren]
                  [] x.children.form = "one" ->
                       LET a == AllocItem(heap, x.children.item)
                       IN [heap |-> a.heap, out |-> OneChild(a.out)]
                  [] OTHER ->
                       LET a == AllocSeq(heap, x.children.items, 1)
                       IN [heap |-> a.heap, out |-> ManyChildren(a.out)]
       IN [heap |-> Append(c.heap, [x EXCEPT !.children = c.out]),
           out |-> Ref(Len(c.heap) + 1)]

AllocSeq(heap, items, i) ==
  IF i > Len(items) THEN [heap |-> heap, out |-> <<>>]
  ELSE LET one == AllocItem(heap, items[i])
           rest == AllocSeq(one.heap, items, i + 1)
       IN [heap |-> rest.heap, out |-> <<one.out>> \o rest.out]

\* the children prop of a container, its elements created on an empty heap
AllocChildren(ch) ==
  CASE ch.form = "none" -> [heap |-> <<>>, out |-> ch]
    [] ch.form = "one" -> LET a == AllocItem(<<>>, ch.item)
                          IN [heap |-> a.heap, out |-> OneChild(a.out)]
    [] OTHER -> LET a == AllocSeq(<<>>, ch.items, 1)
                IN [heap |-> a.heap, out |-> ManyChildren(a.out)]

RECURSIVE Deref(_, _)
\* the tree that a child is the root of
Deref(heap, x) ==
  IF ~IsRef(x) THEN x
  ELSE LET o == heap[x.at]
       IN [o EXCEPT !.children =
             CASE o.children.form = "none" -> NoChildren
               [] o.children.form = "one" -> OneChild(Deref(heap, o.children.item))
               [] OTHER -> ManyChildren([i \in 1..Len(o.children.items) |->
                                           Deref(heap, o.children.items[i])])]

DerefChildren(heap, ch) ==
  CASE ch.form = "none" -> ch
    [] ch.form = "one" -> OneChild(Deref(heap, ch.item))
    [] OTHER -> ManyChildren([i \in 1..Len(ch.items) |-> Deref(heap, ch.items[i])])

cloneElementRef_inPlace(heap, x, config, children, withChildren) ==
  LET o == heap[x.at]
      copy == [o EXCEPT !.props = Merge(o.props, config),
                        !.children = IF withChildren THEN children ELSE o.children]
  IN [heap |-> [heap EXCEPT ![x.at] = copy], out |-> x]

\* React.cloneElement(element, config[, children]): a new element
cloneElementRef(heap, x, config, children, withChildren) ==
  LET o == heap[x.at]
      copy == [o EXCEPT !.props = Merge(o.props, config),
                        !.children = IF withChildren THEN children ELSE o.children]
  IN [heap |-> Append(heap, copy), out |-> Ref(Len(heap) + 1)]

\* callbackFn(child)
callbackFnRef(heap, cb, child) ==
  IF cb = "wrapAndClear" /\ Truthy(from(hasCloseOnClick, At(heap, child)))
  THEN LET c == cloneElementRef(heap, child, clear(hasCloseOnClick), NoChildren, FALSE)
       IN [heap |-> Append(c.heap, Element("div", EmptyProps, OneChild(c.out))),
           out |-> Ref(Len(c.heap) + 1)]
  ELSE [heap |-> heap, out |-> child]

RECURSIVE recursiveMapRef(_, _, _, _)
RECURSIVE MapFromRef(_, _, _, _, _)

\* the callback recursiveMap hands to React.Children.map
MapChildRef(heap, child, callbackFn_, options) ==
  LET effectiveOptions == Merge(defaultOptions, options)
      o == At(heap, child)
      recurse == /\ isValidElement(o)
                 /\ TruthyChildren(o.children)
                 /\ ~shouldStop(o, effectiveOptions)
      sub == recursiveMapRef(heap, o.children, callbackFn_, options)
      child2 == IF recurse THEN cloneElementRef(sub.heap, child, EmptyProps, sub.out, TRUE)
                ELSE [heap |-> heap, out |-> child]
      mapped == callbackFnRef(child2.heap, callbackFn_, child2.out)
  IN [heap |-> mapped.heap, out |-> Kept(mapped.out)]

\* React.Children.map over the entries i.. of an array of children
MapFromRef(heap, items, i, callbackFn_, options) ==
  IF i > Len(items) THEN [heap |-> heap, out |-> <<>>]
  ELSE LET one == MapChildRef(heap, items[i], callbackFn_, options)
           rest == MapFromRef(one.heap, items, i + 1, callbackFn_, options)
       IN [heap |-> rest.heap, out |-> one.out \o rest.out]

\* recursiveMap(children, callbackFn, options)
recursiveMapRef(heap, children, callbackFn_, options) ==
  IF children.form = "none" \/ (children.form = "one" /\ children.item = Null)
  THEN [heap |-> heap, out |-> children]
  ELSE LET items == IF children.form = "one" THEN <<children.item>> ELSE children.items
           r == MapFromRef(heap, items, 1, callbackFn_, options)
       IN [heap |-> r.heap, out |-> ManyChildren(r.out)]

\* confinedBy(component).recursiveMap(children, callbackFn)
confinedByRef(boundary, heap, children, callbackFn_) ==
  recursiveMapRef(heap, children, callbackFn_, [k \in {"stopRecursion"} |-> boundary])

\* the container renders twice with the same children: two traversals, one
\* after the other
WalkTwice(b1, cb1, b2, cb2, bare) ==
  /\ walk = NoRet
  /\ bare => Len(content) <= 1
  /\ LET a == AllocChildren(AsChildren(content, bare))
         r1 == confinedByRef(b1, a.heap, a.out, cb1)
         r2 == confinedByRef(b2, r1.heap, a.out, cb2)
     IN walk' = [op |-> "twice", heap0 |-> a.heap, children |-> a.out,
                 first |-> [boundary |-> b1, callbackFn |-> cb1, out |-> r1.out],
                 second |-> [boundary |-> b2, callbackFn |-> cb2, out |-> r2.out],
                 heap |-> r2.heap]
  /\ UNCHANGED <<storeVars, content>>

NextRef ==
  \/ \E x \in Leaves : AddChild(x, FALSE)
  \/ \E t \in ContainerTypes, bare \in BOOLEAN :
       Nest(t, IF t = "Y" THEN Marked ELSE EmptyProps, bare)
  \/ \E b1, b2 \in Boundaries, cb1, cb2 \in Visitors, bare \in BOOLEAN :
       WalkTwice(b1, cb1, b2, cb2, bare)
  \/ Rerender

SpecRef == InitWalk /\ [][NextRef]_vars

\* the walk over objects returns the trees that recursiveMap returns
RefAgrees ==
  walk.op = "twice" =>
    LET ch == DerefChildren(walk.heap0, walk.children)
    IN /\ DerefChildren(walk.heap, walk.first.out)
            = confinedBy(walk.first.boundary, ch, walk.first.callbackFn).out
       /\ DerefChildren(walk.heap, walk.second.out)
            = confinedBy(walk.second.boundary, ch, walk.second.callbackFn).out

\* C16: attach, clear, read and walk change nothing in place: after two
\* traversals every input element, with its props and its children, is what
\* it was before, all changes are in new objects, and the two traversals
\* give the same results when made in the other order.
C16_NothingInPlace ==
  walk.op = "twice" =>
    /\ Len(walk.heap) >= Len(walk.heap0)
    /\ \A a \in 1..Len(walk.heap0) : walk.heap[a] = walk.heap0[a]
    /\ LET s2 == confinedByRef(walk.second.boundary, walk.heap0, walk.children,
                               walk.second.callbackFn)
           s1 == confinedByRef(walk.first.boundary, s2.heap, walk.children,
                               walk.first.callbackFn)
       IN /\ DerefChildren(walk.heap, walk.first.out) = DerefChildren(s1.heap, s1.out)
          /\ DerefChildren(walk.heap, walk.second.out) = DerefChildren(s2.heap, s2.out)

\* two traversals of an attached element beneath a nested one: the first
\* wrapped and cleared it, the second differs from the first
C16_Witness ==
  /\ walk.op = "twice"
  /\ walk.first.callbackFn = "wrapAndClear"
  /\ walk.first.boundary # walk.second.boundary
  /\ Len(walk.heap) > Len(walk.heap0) + 2
  /\ \E a \in (Len(walk.heap0) + 1)..Len(walk.heap) :
       /\ walk.heap[a].type = "Y"
       /\ Get(walk.heap[a].props, hasCloseOnClick.propertyID) = UNSET_VALUE
  /\ DerefChildren(walk.heap, walk.first.out) # DerefChildren(walk.heap, walk.second.out)
  /\ DerefChildren(walk.heap, walk.first.out) # DerefChildren(walk.heap0, walk.children)

----------------------------------------------------------------------------
(* createSetter on a component that already has a setter, under SpecProps  *)

\* the element <div {...fragment} />
Built(fragment) == Element("div", fragment, NoChildren)

\* C21: createSetter installs the setter under the property's name, letter
\* case included, and leaves setters under other names alone; when another
\* property of the same name had its setter on the component, the later
\* call replaces it: fragments made through the component carry only the
\* later property's key, and every other property reads undefined on an
\* element built with them.
C21_LaterSetterReplaces ==
  /\ [][ret'.op = "createSetter" =>
          LET p == declared[ret'.p]
          IN /\ p.name \in DOMAIN component'
             /\ component'[p.name].p = p
             /\ \A n \in DOMAIN component \ {p.name} :
                  n \in DOMAIN component' /\ component'[n] = component[n]
             /\ DOMAIN component' = DOMAIN component \cup {p.name}]_vars
  /\ [](ret.op = "setter" =>
          LET p == component[ret.name].p
          IN /\ p.name = ret.name
             /\ DOMAIN ret.fragment = {p.propertyID}
             /\ \A j \in 1..Len(declared) :
                  declared[j] # p => from(declared[j], Built(ret.fragment)) = Undefined)

\* two properties share the name; the element carries a value attached
\* through the setter of the first, and the component's setter now makes
\* fragments for the second
C21_Witness ==
  /\ declared[1].name = declared[2].name
  /\ ret.op = "setter"
  /\ DOMAIN ret.fragment = {declared[2].propertyID}
  /\ isValidElement(element)
  /\ Get(element.props, declared[1].propertyID) \in CallerValues \ {Undefined}

----------------------------------------------------------------------------
(* confinedBy without a component, under SpecWalk *)

Unconfined == Walked /\ walk.boundary \in {Undefined, "null"}

HasChildren(x) == isValidElement(x) /\ ItemsOf(x.children) # <<>>

\* C22: a walker from confinedBy(undefined) or confinedBy(null) recurses
\* into every element that has children, so every item of the content, at
\* any depth, is passed to the visitor.
C22_UnconfinedVisitsAll ==
  Unconfined =>
    \A q \in PathsIn(walk.children) :
      /\ VisitCount(q) = 1
      /\ HasChildren(ItemAt(walk.children, q)) => \A i \in Visits(q) : walk.log[i].cloned

----------------------------------------------------------------------------
(* What the visitor is invoked on, under SpecWalk *)

\* the items of the content that have no ancestor of the boundary type
OutsideBoundary == {q \in PathsIn(walk.children) : ~HasBoundaryAncestor(q)}

\* every invocation of the visitor is for an item of the original content,
\* at most one per item: the item itself, or its copy with rewritten
\* children, and never a node the visitor returned
VisitsOnlyOriginals ==
  Walked =>
    \A i \in 1..Len(walk.log) :
      /\ walk.log[i].path \in OutsideBoundary
      /\ VisitCount(walk.log[i].path) = 1
      /\ Corresponds(walk.log[i].child, ItemAt(walk.children, walk.log[i].path))

\* what the visitor returned is seen only as a child of the parent handed
\* to the visitor later, and in the result of the walk
ReplacementsInParent ==
  Walked =>
    /\ \A q \in PathsIn(walk.children) :
         RecursedInto(q) =>
           /\ \A i \in 1..ChildCount(q) : VisitCount(Append(q, i)) = 1
           /\ walk.log[VisitOf(q)].child.children = ManyChildren(NonNull(ChildResults(q)))
    /\ walk.out.form = "many" =>
         /\ \A i \in 1..Len(ItemsOf(walk.children)) : VisitCount(<<i>>) = 1
         /\ walk.out.items = NonNull([i \in 1..Len(ItemsOf(walk.children)) |->
                                        walk.log[VisitOf(<<i>>)].result])

\* C23: the visitor is never invoked on a node the visitor returned: the
\* number of its invocations is the number of items of the original content
\* outside boundary subtrees, each invocation is for one of these items, and
\* the replacements are seen only as children of the parent visited later.
C23_VisitorNotReinvoked ==
  /\ VisitsOnlyOriginals
  /\ ReplacementsInParent
  /\ Walked => Len(walk.log) = Cardinality(OutsideBoundary)

====
